---------------------------- MODULE Spec2Model ----------------------------
(***************************************************************************)
(* A model of the SimpleNet engine of src/net/connection.go: the engine,   *)
(* its listeners and connections, the three registries (Go slices over     *)
(* shared backing arrays), the event channel, the per-connection mailbox   *)
(* channels, and every goroutine (application callers, accept loops, read  *)
(* and write tasks) with its call stack.                                   *)
(*                                                                         *)
(* A step is one access to shared state (a channel operation, a socket     *)
(* call, an atomic add, a read or write of a field other goroutines use)   *)
(* with the local computation that follows it.  A critical section that    *)
(* holds no blocking call is one step.  Timestamps (upTime), logging and   *)
(* the UserData slots take no part in any step and are left out.           *)
(***************************************************************************)
EXTENDS Integers, Sequences, FiniteSets, TLC

(***************************************************************************)
(* Program constants.                                                      *)
(***************************************************************************)
EventNewConnection == 1
EventConnectionError == 2
EventConnectionClosed == 3
EventNewConnectionData == 4
EventProtoError == 5
EventTimeout == 6

StatusListenning == 1
StatusConnected == 2
StatusBroken == 3

EventsCap == 1024
MsgChanCap == 1024

(***************************************************************************)
(* Bounds of the model.                                                    *)
(***************************************************************************)
\* calls the application goroutine of the connection harnesses makes
MaxCalls == 3
\* successful reads of inbound data, over all connections
MaxData == 1
\* the largest PollEvent timeout, in clock ticks
MaxTimeout == 1
\* listeners an engine opens
MaxListeners == 1
\* the ids harness: calls of the application goroutine, and connections
IdCalls == 3
IdConns == 3
\* the close harness: calls of its application goroutine, connections
CloseCalls == 3
CloseConns == 2
\* the callers harness: application goroutines, calls of each, connections
NumCallers == 2
CallerCalls == 2
CallerConns == 2
\* the cascade harness: calls of its application goroutine, connections
CascadeCalls == 4
CascadeConns == 3

VARIABLES
    net,      \* the SimpleNet: events channel, registries, nextid, destroy
    lst,      \* the Listeners, in creation order
    conn,     \* the Connections, in creation order
    heap,     \* the backing arrays of the registry slices
    stack,    \* each goroutine's call stack, innermost frame first
    panic,    \* each goroutine's panic value ("" when it has not panicked)
    io        \* successful inbound data reads so far

vars == <<net, lst, conn, heap, stack, panic, io>>

(***************************************************************************)
(* Error values.                                                           *)
(***************************************************************************)
ErrNone == "nil"
ErrEOF == "EOF"
ErrIO == "io error"
ErrUseOfClosed == "use of closed network connection"
ErrProto == "proto error"
ErrNotConnected == "not connected connection"
ErrDataType == "unexpect data type"
ErrDestroyed == "SimpleNet destroyed"
ErrDial == "dial failed"
ErrBind == "listen failed"
ErrSerialize == "serialize failed"
PanicCloseOfClosed == "close of closed channel"
PanicSendEvents == "send on closed channel: events"
PanicSendMailbox == "send on closed channel: msgChan"

(***************************************************************************)
(* Go slices.  A slice header is (backing array, length); the capacity is  *)
(* the array's size.  Every registry slice starts at its array's first     *)
(* element.  An element 0 is a nil pointer.                                *)
(***************************************************************************)
NilSlice == [arr |-> 0, len |-> 0]

Cap(h, s) == IF s.arr = 0 THEN 0 ELSE Len(h[s.arr])

\* s[i], i from 1
Elem(h, s, i) == h[s.arr][i]

\* the capacity append gives a slice that has to grow
GrowCap(old) == IF old = 0 THEN 1 ELSE 2 * old

\* append(s, v): in place when the capacity allows, else into a new array.
\* The result is <<heap, slice>>.
GoAppend(h, s, v) ==
    IF s.len < Cap(h, s)
    THEN <<[h EXCEPT ![s.arr][s.len + 1] = v], [s EXCEPT !.len = s.len + 1]>>
    ELSE LET ncap == GrowCap(Cap(h, s))
             narr == [k \in 1..ncap |->
                         IF k <= s.len THEN h[s.arr][k]
                         ELSE IF k = s.len + 1 THEN v ELSE 0]
         IN  <<Append(h, narr), [arr |-> Len(h) + 1, len |-> s.len + 1]>>

\* the first position of v in s, 0 when absent
RECURSIVE IndexFrom(_, _, _, _)
IndexFrom(h, s, v, i) ==
    IF i > s.len THEN 0
    ELSE IF h[s.arr][i] = v THEN i
    ELSE IndexFrom(h, s, v, i + 1)

IndexOf(h, s, v) == IndexFrom(h, s, v, 1)

\* the removal of position i: s[:i] for the last element, else
\* append(s[:i], s[i+1:]...), which shifts the tail down inside the array.
GoDelete(h, s, i) ==
    IF i = s.len
    THEN <<h, [s EXCEPT !.len = i - 1]>>
    ELSE <<[h EXCEPT ![s.arr] =
               [k \in 1..Len(h[s.arr]) |->
                   IF k >= i /\ k < s.len THEN h[s.arr][k + 1] ELSE h[s.arr][k]]],
           [s EXCEPT !.len = s.len - 1]>>

\* the elements of a slice, as a sequence
Elems(h, s) == [k \in 1..s.len |-> h[s.arr][k]]

(***************************************************************************)
(* Goroutines.                                                             *)
(***************************************************************************)
App(k) == <<"app", k>>
Reader(c) == <<"rd", c>>
Writer(c) == <<"wr", c>>
Acceptor(l) == <<"acc", l>>

IsApp(t) == t[1] = "app"

Threads == DOMAIN stack

Live(t) == stack[t] /= <<>>

Top(t) == Head(stack[t])

At(t, label) == t \in DOMAIN stack /\ Live(t) /\ Top(t).pc = label

\* an unrecovered panic of an application goroutine ends the process
Crashed == \E t \in Threads : IsApp(t) /\ panic[t] /= ""

Running(t) == ~Crashed

\* the application goroutine's own frame
NilEvent == [EventType |-> 0, Conn |-> 0, Data |-> "nil"]

\* the application goroutine's own frame: the call it is in or has finished
\* (op, arg), the number of calls it has made, the registered connections
\* the call found (snap), and what the call returned (err, val, evt)
IdleFrame == [pc |-> "idle", op |-> "none", n |-> 0, arg |-> 0, snap |-> {},
              err |-> ErrNone, val |-> 0, evt |-> NilEvent]

\* the stack after the innermost frame stepped to f
Goto(t, f) == [stack EXCEPT ![t] = <<f>> \o Tail(@)]

\* the stack after the innermost frame stepped to `caller` and called f
Call(t, caller, f) == [stack EXCEPT ![t] = <<f, caller>> \o Tail(@)]

\* the stack after the innermost frame returned (err, val): an application
\* call that returns leaves its result in the goroutine's own frame; a task
\* whose function returns ends.
ReturnAll(t, err, val, evt) ==
    LET rest == Tail(stack[t])
    IN  IF rest /= <<>> /\ Head(rest).pc = "busy"
        THEN [stack EXCEPT ![t] =
                 <<[Head(rest) EXCEPT !.pc = "idle", !.err = err, !.val = val,
                                      !.evt = evt]>>]
        ELSE [stack EXCEPT ![t] = rest]

Return(t, err, val) == ReturnAll(t, err, val, NilEvent)

\* a panic: recovered by a task's deferred function, which ends the task;
\* not recovered in an application goroutine.
Panic(t, why) ==
    /\ panic' = [panic EXCEPT ![t] = why]
    /\ stack' = [stack EXCEPT ![t] = IF IsApp(t) THEN @ ELSE <<>>]

(***************************************************************************)
(* The initial state: NewSimpleNet, and the application goroutines.        *)
(***************************************************************************)
NewSimpleNet ==
    [events |-> <<>>, closed |-> FALSE, connClient |-> NilSlice,
     connServer |-> NilSlice, nextid |-> 0, destroy |-> FALSE]

InitWith(napps) ==
    /\ net = NewSimpleNet
    /\ lst = <<>>
    /\ conn = <<>>
    /\ heap = <<>>
    /\ stack = [t \in {App(k) : k \in 1..napps} |-> <<IdleFrame>>]
    /\ panic = [t \in {App(k) : k \in 1..napps} |-> ""]
    /\ io = 0

Init == InitWith(1)


(***************************************************************************)
(* Objects.                                                                *)
(***************************************************************************)
\* the protocol capabilities: none bound, one with HeadLen() = 0, one with
\* a fixed header
Protos == {"nil", "raw", "framed"}

HeadLen(p) == IF p = "framed" THEN 2 ELSE 0

\* a counter that hands out its value without advancing
AddNothing(n) == n

\* atomic.AddInt64(&n.nextid, 1)
AtomicAddNextid(n) == n + 1

NewListener(id, proto) ==
    [id |-> id, status |-> StatusListenning, conns |-> NilSlice,
     proto |-> proto, closed |-> FALSE]

\* a Connection; pass is what proto.FilterAccept answers for it
NewConnection(l, id, proto) ==
    [listen |-> l, id |-> id, status |-> StatusConnected, proto |-> proto,
     msgChan |-> <<>>, chanClosed |-> FALSE, sockClosed |-> FALSE,
     pass |-> TRUE]

\* the registry a connection belongs to: its listener's, else the engine's
Registry(c) ==
    IF conn[c].listen /= 0 THEN lst[conn[c].listen].conns ELSE net.connClient

\* the write of header s to the registry of connection c
SetRegistry(c, s) ==
    IF conn[c].listen /= 0
    THEN /\ lst' = [lst EXCEPT ![conn[c].listen].conns = s]
         /\ UNCHANGED net
    ELSE /\ net' = [net EXCEPT !.connClient = s]
         /\ UNCHANGED lst

Spawn(stk, t, frame) == stk @@ (t :> <<frame>>)

(***************************************************************************)
(* An application goroutine that is between calls starts a call: its own   *)
(* frame records the operation and counts it.                              *)
(***************************************************************************)
MayCall(t, calls) == IsApp(t) /\ At(t, "idle") /\ Top(t).n < calls /\ Running(t)

\* Destroy has not been called: after it the application only polls
InUse == ~net.closed

Busy(t, op, arg, snap) ==
    [pc |-> "busy", op |-> op, n |-> Top(t).n + 1, arg |-> arg, snap |-> snap,
     err |-> ErrNone, val |-> 0, evt |-> NilEvent]

\* a call that returns in its first step
Returned(t, op, err) ==
    [Busy(t, op, 0, {}) EXCEPT !.pc = "idle", !.err = err]

(***************************************************************************)
(* Listen.                                                                 *)
(***************************************************************************)
\* net.Listen, and the Listener with its id
Listen(t, calls, proto, ok) ==
    /\ MayCall(t, calls)
    /\ InUse
    /\ IF ok
       THEN /\ net' = [net EXCEPT !.nextid = AtomicAddNextid(@)]
            /\ lst' = Append(lst, NewListener(net'.nextid, proto))
            /\ stack' = [stack EXCEPT ![t] =
                   <<[pc |-> "listen_add", l |-> Len(lst) + 1],
                     Busy(t, "Listen", 0, {})>>]
       ELSE /\ stack' = [stack EXCEPT ![t] =
                   <<Returned(t, "Listen", ErrBind)>>]
            /\ UNCHANGED <<net, lst>>
    /\ UNCHANGED <<conn, heap, panic, io>>

\* syncAddListen, go n.listening(l), return
ListenAdd(t) ==
    /\ At(t, "listen_add")
    /\ Running(t)
    /\ LET l == Top(t).l
           r == GoAppend(heap, net.connServer, l)
       IN  /\ heap' = r[1]
           /\ net' = [net EXCEPT !.connServer = r[2]]
           /\ stack' = Spawn(Return(t, ErrNone, l), Acceptor(l),
                             [pc |-> "acc_accept", l |-> l])
           /\ panic' = panic @@ (Acceptor(l) :> "")
    /\ UNCHANGED <<lst, conn, io>>

(***************************************************************************)
(* syncAddClient and syncDelClient.  Both copy the registry's slice header *)
(* before they take the registry's lock.                                   *)
(***************************************************************************)
\* connQueue = n.connClient (or conn.listen.conns), before lock.Lock()
AddRead(t) ==
    /\ At(t, "add_read")
    /\ Running(t)
    /\ stack' = Goto(t, [pc |-> "add_lock", c |-> Top(t).c, q |-> Registry(Top(t).c)])
    /\ UNCHANGED <<net, lst, conn, heap, panic, io>>

\* under the lock: connQueue = append(connQueue, conn), written back
AddLock(t) ==
    /\ At(t, "add_lock")
    /\ Running(t)
    /\ LET r == GoAppend(heap, Top(t).q, Top(t).c)
       IN  /\ heap' = r[1]
           /\ SetRegistry(Top(t).c, r[2])
    /\ stack' = [stack EXCEPT ![t] = Tail(@)]
    /\ UNCHANGED <<conn, panic, io>>

\* connQueue = n.connClient (or conn.listen.conns), before lock.Lock()
DelRead(t) ==
    /\ At(t, "del_read")
    /\ Running(t)
    /\ stack' = Goto(t, [pc |-> "del_lock", c |-> Top(t).c, q |-> Registry(Top(t).c)])
    /\ UNCHANGED <<net, lst, conn, heap, panic, io>>

\* under the lock: the scan of connQueue and the removal, written back only
\* when the connection was found
DelLock(t) ==
    /\ At(t, "del_lock")
    /\ Running(t)
    /\ LET c == Top(t).c
           i == IndexOf(heap, Top(t).q, c)
           r == GoDelete(heap, Top(t).q, i)
       IN  IF i = 0
           THEN UNCHANGED <<net, lst, heap>>
           ELSE /\ heap' = r[1]
                /\ SetRegistry(c, r[2])
    /\ stack' = Return(t, ErrNone, 0)
    /\ UNCHANGED <<conn, panic, io>>

(***************************************************************************)
(* Connect.                                                                *)
(***************************************************************************)
\* net.Dial, and the Connection with its id; then syncAddClient
Connect(t, calls, proto, ok) ==
    /\ MayCall(t, calls)
    /\ InUse
    /\ IF ok
       THEN /\ net' = [net EXCEPT !.nextid = AtomicAddNextid(@)]
            /\ conn' = Append(conn, NewConnection(0, net'.nextid, proto))
            /\ stack' = [stack EXCEPT ![t] =
                   <<[pc |-> "add_read", c |-> Len(conn) + 1],
                     [pc |-> "connect_go", c |-> Len(conn) + 1],
                     Busy(t, "Connect", 0, {})>>]
       ELSE /\ stack' = [stack EXCEPT ![t] =
                   <<Returned(t, "Connect", ErrDial)>>]
            /\ UNCHANGED <<net, conn>>
    /\ UNCHANGED <<lst, heap, panic, io>>

\* go n.handleRead(conn); go n.handleWrite(conn); return conn
ConnectGo(t) ==
    /\ At(t, "connect_go")
    /\ Running(t)
    /\ LET c == Top(t).c
       IN  /\ stack' = Spawn(Spawn(Return(t, ErrNone, c),
                                   Reader(c), [pc |-> "rd_read", c |-> c]),
                             Writer(c), [pc |-> "wr_recv", c |-> c])
           /\ panic' = panic @@ (Reader(c) :> "") @@ (Writer(c) :> "")
    /\ UNCHANGED <<net, lst, conn, heap, io>>

(***************************************************************************)
(* The event channel.                                                      *)
(***************************************************************************)
Event(type, c, data) == [EventType |-> type, Conn |-> c, Data |-> data]

\* n.events <- e by goroutine t, which goes on with stack stk and panic
\* values pnc: a send on the closed channel panics, a send on a full one
\* blocks.
EmitEvent(t, e, stk, pnc) ==
    IF net.closed
    THEN /\ Panic(t, PanicSendEvents)
         /\ UNCHANGED net
    ELSE /\ Len(net.events) < EventsCap
         /\ net' = [net EXCEPT !.events = Append(@, e)]
         /\ stack' = stk
         /\ panic' = pnc

(***************************************************************************)
(* CloseConn.                                                              *)
(***************************************************************************)
\* the connections the application can hold: Connect returned them, or the
\* accept loop published them
Published(c) == c \in DOMAIN conn /\ Reader(c) \in Threads

CloseConn(t, calls, c) ==
    /\ MayCall(t, calls)
    /\ InUse
    /\ Published(c)
    /\ stack' = [stack EXCEPT ![t] =
           <<[pc |-> "cc_check", c |-> c],
             Busy(t, "CloseConn", c,
                  IF conn[c].status = StatusConnected THEN {c} ELSE {})>>]
    /\ UNCHANGED <<net, lst, conn, heap, panic, io>>

\* CloseConn without its status check
CcCheckAlways(t) ==
    /\ At(t, "cc_check")
    /\ Running(t)
    /\ stack' = Goto(t, [pc |-> "cc_status", c |-> Top(t).c])
    /\ UNCHANGED <<net, lst, conn, heap, panic, io>>

\* if conn.status == StatusConnected
CcCheck(t) ==
    /\ At(t, "cc_check")
    /\ Running(t)
    /\ stack' = IF conn[Top(t).c].status = StatusConnected
                THEN Goto(t, [pc |-> "cc_status", c |-> Top(t).c])
                ELSE Return(t, ErrNone, 0)
    /\ UNCHANGED <<net, lst, conn, heap, panic, io>>

\* conn.status = StatusBroken
CcStatus(t) ==
    /\ At(t, "cc_status")
    /\ Running(t)
    /\ conn' = [conn EXCEPT ![Top(t).c].status = StatusBroken]
    /\ stack' = Goto(t, [pc |-> "cc_close_chan", c |-> Top(t).c])
    /\ UNCHANGED <<net, lst, heap, panic, io>>

\* close(conn.msgChan)
CcCloseChan(t) ==
    /\ At(t, "cc_close_chan")
    /\ Running(t)
    /\ IF conn[Top(t).c].chanClosed
       THEN /\ Panic(t, PanicCloseOfClosed)
            /\ UNCHANGED conn
       ELSE /\ conn' = [conn EXCEPT ![Top(t).c].chanClosed = TRUE]
            /\ stack' = Goto(t, [pc |-> "cc_close_sock", c |-> Top(t).c])
            /\ UNCHANGED panic
    /\ UNCHANGED <<net, lst, heap, io>>

\* conn.conn.Close(), then n.syncDelClient(conn)
CcCloseSock(t) ==
    /\ At(t, "cc_close_sock")
    /\ Running(t)
    /\ conn' = [conn EXCEPT ![Top(t).c].sockClosed = TRUE]
    /\ stack' = Goto(t, [pc |-> "del_read", c |-> Top(t).c])
    /\ UNCHANGED <<net, lst, heap, panic, io>>

(***************************************************************************)
(* checkConnErr, for err /= nil.                                           *)
(***************************************************************************)
CeFrame(label, c, err) == [pc |-> label, c |-> c, err |-> err]

\* if conn.net.destroy { return err }
CeDestroy(t) ==
    /\ At(t, "ce_destroy")
    /\ Running(t)
    /\ stack' = IF net.destroy
                THEN Return(t, Top(t).err, 0)
                ELSE Goto(t, CeFrame("ce_status", Top(t).c, Top(t).err))
    /\ UNCHANGED <<net, lst, conn, heap, panic, io>>

\* if conn.status == StatusConnected
CeStatus(t) ==
    /\ At(t, "ce_status")
    /\ Running(t)
    /\ stack' = IF conn[Top(t).c].status = StatusConnected
                THEN Goto(t, CeFrame("ce_close_chan", Top(t).c, Top(t).err))
                ELSE Goto(t, CeFrame("ce_emit", Top(t).c, Top(t).err))
    /\ UNCHANGED <<net, lst, conn, heap, panic, io>>

\* close(conn.msgChan)
CeCloseChan(t) ==
    /\ At(t, "ce_close_chan")
    /\ Running(t)
    /\ IF conn[Top(t).c].chanClosed
       THEN /\ Panic(t, PanicCloseOfClosed)
            /\ UNCHANGED conn
       ELSE /\ conn' = [conn EXCEPT ![Top(t).c].chanClosed = TRUE]
            /\ stack' = Goto(t, CeFrame("ce_close_sock", Top(t).c, Top(t).err))
            /\ UNCHANGED panic
    /\ UNCHANGED <<net, lst, heap, io>>

\* conn.conn.Close()
CeCloseSock(t) ==
    /\ At(t, "ce_close_sock")
    /\ Running(t)
    /\ conn' = [conn EXCEPT ![Top(t).c].sockClosed = TRUE]
    /\ stack' = Goto(t, CeFrame("ce_set_status", Top(t).c, Top(t).err))
    /\ UNCHANGED <<net, lst, heap, panic, io>>

\* conn.status = StatusBroken, then n.syncDelClient(conn)
CeSetStatus(t) ==
    /\ At(t, "ce_set_status")
    /\ Running(t)
    /\ conn' = [conn EXCEPT ![Top(t).c].status = StatusBroken]
    /\ stack' = Call(t, CeFrame("ce_emit", Top(t).c, Top(t).err),
                     [pc |-> "del_read", c |-> Top(t).c])
    /\ UNCHANGED <<net, lst, heap, panic, io>>

\* the event of an I/O error
ErrorEventType(err) ==
    IF err = ErrEOF THEN EventConnectionClosed ELSE EventConnectionError

\* n.events <- event; return err
CeEmit(t) ==
    /\ At(t, "ce_emit")
    /\ Running(t)
    /\ EmitEvent(t, Event(ErrorEventType(Top(t).err), Top(t).c, Top(t).err),
                 Return(t, Top(t).err, 0), panic)
    /\ UNCHANGED <<lst, conn, heap, io>>

(***************************************************************************)
(* handleRead.                                                             *)
(***************************************************************************)
\* the error a failed socket call returns: the socket closed on this side,
\* or a failure of the peer or the network
SockErrs(c) == IF conn[c].sockClosed THEN {ErrUseOfClosed} ELSE {ErrEOF, ErrIO}

\* conn.conn.Read fails (the head, or the one byte of the unframed mode)
RdFail(t, err) ==
    /\ At(t, "rd_read")
    /\ Running(t)
    /\ err \in SockErrs(Top(t).c)
    /\ stack' = Goto(t, CeFrame("ce_destroy", Top(t).c, err))
    /\ UNCHANGED <<net, lst, conn, heap, panic, io>>

\* what Parse makes of the bytes it is given: the message of a frame read
\* in full, or something made of a part of a frame and of stale bytes
Parsed(full) == IF full THEN "data" ELSE "partial"

\* conn.conn.Read succeeds, with err == nil: it has filled the buffer
\* (full) or, the buffer being longer than one byte, a part of it; count is
\* not looked at.  Unframed: the one byte read is the event.  Framed: the
\* buffer is the head, and proto.BodyLen(head) accepts it or not.
RdData(t, full, headOk) ==
    /\ At(t, "rd_read")
    /\ Running(t)
    /\ ~conn[Top(t).c].sockClosed
    /\ io < MaxData
    /\ HeadLen(conn[Top(t).c].proto) <= 1 => full
    /\ io' = io + 1
    /\ LET c == Top(t).c
       IN  stack' =
             IF HeadLen(conn[c].proto) <= 0
             THEN Goto(t, [pc |-> "rd_emit", c |-> c,
                           evt |-> Event(EventNewConnectionData, c, "data")])
             ELSE IF headOk
             THEN Goto(t, [pc |-> "rd_body", c |-> c, full |-> full])
             ELSE Goto(t, [pc |-> "rd_emit", c |-> c,
                           evt |-> Event(EventProtoError, c, ErrProto)])
    /\ UNCHANGED <<net, lst, conn, heap, panic>>

\* conn.conn.Read(body) fails
RdBodyFail(t, err) ==
    /\ At(t, "rd_body")
    /\ Running(t)
    /\ err \in SockErrs(Top(t).c)
    /\ stack' = Goto(t, CeFrame("ce_destroy", Top(t).c, err))
    /\ UNCHANGED <<net, lst, conn, heap, panic, io>>

\* conn.conn.Read(body) succeeds, with the whole body or a part of it, and
\* proto.Parse accepts what it is given or not
RdBody(t, full, parseOk) ==
    /\ At(t, "rd_body")
    /\ Running(t)
    /\ ~conn[Top(t).c].sockClosed
    /\ LET c == Top(t).c
       IN  stack' = Goto(t, [pc |-> "rd_emit", c |-> c,
                             evt |-> IF parseOk
                                     THEN Event(EventNewConnectionData, c,
                                                Parsed(full /\ Top(t).full))
                                     ELSE Event(EventProtoError, c, ErrProto)])
    /\ UNCHANGED <<net, lst, conn, heap, panic, io>>

\* n.events <- event, and the next turn of the loop
RdEmit(t) ==
    /\ At(t, "rd_emit")
    /\ Running(t)
    /\ EmitEvent(t, Top(t).evt, Goto(t, [pc |-> "rd_read", c |-> Top(t).c]), panic)
    /\ UNCHANGED <<lst, conn, heap, io>>

(***************************************************************************)
(* handleWrite.                                                            *)
(***************************************************************************)
\* msg, ok := <-conn.msgChan: a buffered frame is received even after the
\* channel was closed; the closed and empty channel ends the task.
WrRecv(t) ==
    /\ At(t, "wr_recv")
    /\ Running(t)
    /\ LET c == Top(t).c
       IN  IF conn[c].msgChan /= <<>>
           THEN /\ conn' = [conn EXCEPT ![c].msgChan = Tail(@)]
                /\ stack' = Goto(t, [pc |-> "wr_write", c |-> c,
                                     msg |-> Head(conn[c].msgChan)])
           ELSE /\ conn[c].chanClosed
                /\ stack' = Return(t, ErrNone, 0)
                /\ UNCHANGED conn
    /\ UNCHANGED <<net, lst, heap, panic, io>>

\* conn.conn.Write(msg) succeeds
WrWrite(t) ==
    /\ At(t, "wr_write")
    /\ Running(t)
    /\ ~conn[Top(t).c].sockClosed
    /\ stack' = Goto(t, [pc |-> "wr_recv", c |-> Top(t).c])
    /\ UNCHANGED <<net, lst, conn, heap, panic, io>>

\* conn.conn.Write(msg) fails
WrFail(t, err) ==
    /\ At(t, "wr_write")
    /\ Running(t)
    /\ err \in SockErrs(Top(t).c) \ {ErrEOF}
    /\ stack' = Goto(t, CeFrame("ce_destroy", Top(t).c, err))
    /\ UNCHANGED <<net, lst, conn, heap, panic, io>>

(***************************************************************************)
(* listening: the accept loop.                                             *)
(***************************************************************************)
\* an accept loop that does not ask the filter
AcceptAll(t, pass) ==
    /\ At(t, "acc_accept")
    /\ Running(t)
    /\ ~lst[Top(t).l].closed
    /\ lst[Top(t).l].proto = "nil" => pass
    /\ LET l == Top(t).l
           c == Len(conn) + 1
       IN  /\ net' = [net EXCEPT !.nextid = AtomicAddNextid(@)]
           /\ conn' = Append(conn, [NewConnection(l, net'.nextid, lst[l].proto)
                                       EXCEPT !.pass = pass])
           /\ stack' = Call(t, [pc |-> "acc_emit", l |-> l, c |-> c],
                            [pc |-> "add_read", c |-> c])
    /\ UNCHANGED <<lst, heap, panic, io>>

\* l.listen.Accept() succeeds: the Connection with its id, then
\* proto.FilterAccept (pass), then syncAddClient.  A connection the filter
\* rejects is dropped with its socket open.
Accept(t, pass) ==
    /\ At(t, "acc_accept")
    /\ Running(t)
    /\ ~lst[Top(t).l].closed
    /\ lst[Top(t).l].proto = "nil" => pass
    /\ LET l == Top(t).l
           c == Len(conn) + 1
       IN  /\ net' = [net EXCEPT !.nextid = AtomicAddNextid(@)]
           /\ conn' = Append(conn, [NewConnection(l, net'.nextid, lst[l].proto)
                                       EXCEPT !.pass = pass])
           /\ stack' = IF pass
                       THEN Call(t, [pc |-> "acc_emit", l |-> l, c |-> c],
                                 [pc |-> "add_read", c |-> c])
                       ELSE stack
    /\ UNCHANGED <<lst, heap, panic, io>>

\* l.listen.Accept() fails: the listener's socket was closed, or the
\* system refused the connection
AcceptFail(t) ==
    /\ At(t, "acc_accept")
    /\ Running(t)
    /\ stack' = Goto(t, [pc |-> "acc_err", l |-> Top(t).l])
    /\ UNCHANGED <<net, lst, conn, heap, panic, io>>

\* if l.status != StatusListenning { break }; continue
AccErr(t) ==
    /\ At(t, "acc_err")
    /\ Running(t)
    /\ stack' = IF lst[Top(t).l].status /= StatusListenning
                THEN Return(t, ErrNone, 0)
                ELSE Goto(t, [pc |-> "acc_accept", l |-> Top(t).l])
    /\ UNCHANGED <<net, lst, conn, heap, panic, io>>

\* n.events <- event; go n.handleRead(conn); go n.handleWrite(conn)
AccEmit(t) ==
    /\ At(t, "acc_emit")
    /\ Running(t)
    /\ LET c == Top(t).c
       IN  EmitEvent(t, Event(EventNewConnection, c, "nil"),
                     Spawn(Spawn(Goto(t, [pc |-> "acc_accept", l |-> Top(t).l]),
                                 Reader(c), [pc |-> "rd_read", c |-> c]),
                           Writer(c), [pc |-> "wr_recv", c |-> c]),
                     panic @@ (Reader(c) :> "") @@ (Writer(c) :> ""))
    /\ UNCHANGED <<lst, conn, heap, io>>

(***************************************************************************)
(* CloseListen.                                                            *)
(***************************************************************************)
\* the connections a registry slice holds
Registered(s) == {Elems(heap, s)[k] : k \in 1..s.len}

CloseListen(t, calls, l) ==
    /\ MayCall(t, calls)
    /\ InUse
    /\ l \in DOMAIN lst /\ Acceptor(l) \in Threads
    /\ stack' = [stack EXCEPT ![t] =
           <<[pc |-> "cl_check", l |-> l],
             Busy(t, "CloseListen", l,
                  IF /\ lst[l].status = StatusListenning
                     /\ \A c \in Registered(lst[l].conns) :
                            conn[c].status = StatusConnected
                  THEN Registered(lst[l].conns) ELSE {})>>]
    /\ UNCHANGED <<net, lst, conn, heap, panic, io>>

\* if listen.status == StatusListenning
ClCheck(t) ==
    /\ At(t, "cl_check")
    /\ Running(t)
    /\ stack' = IF lst[Top(t).l].status = StatusListenning
                THEN Goto(t, [pc |-> "cl_range", l |-> Top(t).l])
                ELSE Return(t, ErrNone, 0)
    /\ UNCHANGED <<net, lst, conn, heap, panic, io>>

\* range listen.conns: the slice header is read once
ClRange(t) ==
    /\ At(t, "cl_range")
    /\ Running(t)
    /\ stack' = Goto(t, [pc |-> "cl_loop", l |-> Top(t).l,
                         q |-> lst[Top(t).l].conns, i |-> 1])
    /\ UNCHANGED <<net, lst, conn, heap, panic, io>>

\* one turn of the range: v is read from the backing array, then
\* n.CloseConn(v); after the last turn, listen.status = StatusBroken
ClLoop(t) ==
    /\ At(t, "cl_loop")
    /\ Running(t)
    /\ LET f == Top(t)
       IN  IF f.i <= f.q.len
           THEN /\ stack' = Call(t, [f EXCEPT !.i = f.i + 1],
                                 [pc |-> "cc_check", c |-> Elem(heap, f.q, f.i)])
                /\ UNCHANGED lst
           ELSE /\ lst' = [lst EXCEPT ![f.l].status = StatusBroken]
                /\ stack' = Goto(t, [pc |-> "cl_close", l |-> f.l])
    /\ UNCHANGED <<net, conn, heap, panic, io>>

\* listen.listen.Close()
ClClose(t) ==
    /\ At(t, "cl_close")
    /\ Running(t)
    /\ lst' = [lst EXCEPT ![Top(t).l].closed = TRUE]
    /\ stack' = Return(t, ErrNone, 0)
    /\ UNCHANGED <<net, conn, heap, panic, io>>

(***************************************************************************)
(* SimpleNetDestroy, called at most once.                                  *)
(***************************************************************************)
\* the connections in some registry
AllRegistered ==
    Registered(net.connClient)
        \cup UNION {Registered(lst[l].conns) : l \in DOMAIN lst}

\* close(n.events)
Destroy(t, calls) ==
    /\ MayCall(t, calls)
    /\ ~net.closed
    /\ net' = [net EXCEPT !.closed = TRUE]
    /\ stack' = [stack EXCEPT ![t] =
           <<[pc |-> "ds_range"], Busy(t, "Destroy", 0, AllRegistered)>>]
    /\ UNCHANGED <<lst, conn, heap, panic, io>>

\* range n.connClient: the slice header is read once
DsRange(t) ==
    /\ At(t, "ds_range")
    /\ Running(t)
    /\ stack' = Goto(t, [pc |-> "ds_clients", q |-> net.connClient, i |-> 1])
    /\ UNCHANGED <<net, lst, conn, heap, panic, io>>

\* one turn of the range over the client connections: n.CloseConn(v);
\* after the last turn, range n.connServer
DsClients(t) ==
    /\ At(t, "ds_clients")
    /\ Running(t)
    /\ LET f == Top(t)
       IN  stack' =
             IF f.i <= f.q.len
             THEN Call(t, [f EXCEPT !.i = f.i + 1],
                       [pc |-> "cc_check", c |-> Elem(heap, f.q, f.i)])
             ELSE Goto(t, [pc |-> "ds_servers", q |-> net.connServer, i |-> 1])
    /\ UNCHANGED <<net, lst, conn, heap, panic, io>>

\* one turn of the range over the listeners: n.CloseListen(v); after the
\* last turn, n.destroy = true
DsServers(t) ==
    /\ At(t, "ds_servers")
    /\ Running(t)
    /\ LET f == Top(t)
       IN  IF f.i <= f.q.len
           THEN /\ stack' = Call(t, [f EXCEPT !.i = f.i + 1],
                                 [pc |-> "cl_check", l |-> Elem(heap, f.q, f.i)])
                /\ UNCHANGED net
           ELSE /\ net' = [net EXCEPT !.destroy = TRUE]
                /\ stack' = Return(t, ErrNone, 0)
    /\ UNCHANGED <<lst, conn, heap, panic, io>>

(***************************************************************************)
(* SendData.  The data is a byte slice or another value; the bytes queued  *)
(* are "msg", whatever they are.                                           *)
(***************************************************************************)
SendData(t, calls, c, isBytes) ==
    /\ MayCall(t, calls)
    /\ InUse
    /\ Published(c)
    /\ stack' = [stack EXCEPT ![t] =
           <<[pc |-> "sd_check", c |-> c, isBytes |-> isBytes],
             Busy(t, "SendData", c, {})>>]
    /\ UNCHANGED <<net, lst, conn, heap, panic, io>>

\* SendData without its status check
SdCheckNoStatus(t, serOk) ==
    /\ At(t, "sd_check")
    /\ Running(t)
    /\ LET f == Top(t)
       IN  stack' =
             IF conn[f.c].proto = "nil" /\ ~f.isBytes
             THEN Return(t, ErrDataType, 0)
             ELSE IF conn[f.c].proto /= "nil" /\ ~serOk
             THEN Return(t, ErrSerialize, 0)
             ELSE Goto(t, [pc |-> "sd_enq", c |-> f.c, msg |-> "msg"])
    /\ UNCHANGED <<net, lst, conn, heap, panic, io>>

\* the status check, then the type assertion (no protocol) or
\* proto.Serialize (which succeeds or not)
SdCheck(t, serOk) ==
    /\ At(t, "sd_check")
    /\ Running(t)
    /\ LET f == Top(t)
       IN  stack' =
             IF conn[f.c].status /= StatusConnected
             THEN Return(t, ErrNotConnected, 0)
             ELSE IF conn[f.c].proto = "nil" /\ ~f.isBytes
             THEN Return(t, ErrDataType, 0)
             ELSE IF conn[f.c].proto /= "nil" /\ ~serOk
             THEN Return(t, ErrSerialize, 0)
             ELSE Goto(t, [pc |-> "sd_enq", c |-> f.c, msg |-> "msg"])
    /\ UNCHANGED <<net, lst, conn, heap, panic, io>>

\* conn.msgChan <- msg: a send on the closed channel panics, a send on a
\* full one blocks
SdEnq(t) ==
    /\ At(t, "sd_enq")
    /\ Running(t)
    /\ LET f == Top(t)
       IN  IF conn[f.c].chanClosed
           THEN /\ Panic(t, PanicSendMailbox)
                /\ UNCHANGED conn
           ELSE /\ Len(conn[f.c].msgChan) < MsgChanCap
                /\ conn' = [conn EXCEPT ![f.c].msgChan = Append(@, f.msg)]
                /\ stack' = Return(t, ErrNone, 0)
                /\ UNCHANGED panic
    /\ UNCHANGED <<net, lst, heap, io>>

(***************************************************************************)
(* PollEvent.  The timer of time.After(timeout) is ready once `timeout`    *)
(* ticks have passed since the call.                                       *)
(***************************************************************************)
PollEvent(t, calls, timeout) ==
    /\ MayCall(t, calls)
    /\ stack' = [stack EXCEPT ![t] =
           <<[pc |-> "poll_select", timeout |-> timeout, elapsed |-> 0],
             Busy(t, "PollEvent", timeout, {})>>]
    /\ UNCHANGED <<net, lst, conn, heap, panic, io>>

\* time passes for a goroutine that waits in PollEvent
Tick(t) ==
    /\ At(t, "poll_select")
    /\ Running(t)
    /\ Top(t).elapsed < Top(t).timeout
    /\ stack' = Goto(t, [Top(t) EXCEPT !.elapsed = @ + 1])
    /\ UNCHANGED <<net, lst, conn, heap, panic, io>>

\* a timer that fires one tick early
TimerReadyEarly(f) == f.elapsed + 1 >= f.timeout

\* the timer's channel can be received from
TimerReady(f) == f.elapsed >= f.timeout

\* a receive that gives !ok as soon as the channel is closed, whatever it
\* still buffers
PollRecvClosedFirst(t) ==
    /\ At(t, "poll_select")
    /\ Running(t)
    /\ IF net.events /= <<>> /\ ~net.closed
       THEN /\ net' = [net EXCEPT !.events = Tail(@)]
            /\ stack' = ReturnAll(t, ErrNone, 0, Head(net.events))
       ELSE /\ net.closed
            /\ stack' = ReturnAll(t, ErrDestroyed, 0, NilEvent)
            /\ UNCHANGED net
    /\ UNCHANGED <<lst, conn, heap, panic, io>>

\* a receive that takes the newest buffered event
PollRecvNewest(t) ==
    /\ At(t, "poll_select")
    /\ Running(t)
    /\ IF net.events /= <<>>
       THEN /\ net' = [net EXCEPT !.events = SubSeq(@, 1, Len(@) - 1)]
            /\ stack' = ReturnAll(t, ErrNone, 0, net.events[Len(net.events)])
       ELSE /\ net.closed
            /\ stack' = ReturnAll(t, ErrDestroyed, 0, NilEvent)
            /\ UNCHANGED net
    /\ UNCHANGED <<lst, conn, heap, panic, io>>

\* case event, ok := <-n.events: a buffered event is received even after
\* the channel was closed; the closed and empty channel gives !ok
PollRecv(t) ==
    /\ At(t, "poll_select")
    /\ Running(t)
    /\ IF net.events /= <<>>
       THEN /\ net' = [net EXCEPT !.events = Tail(@)]
            /\ stack' = ReturnAll(t, ErrNone, 0, Head(net.events))
       ELSE /\ net.closed
            /\ stack' = ReturnAll(t, ErrDestroyed, 0, NilEvent)
            /\ UNCHANGED net
    /\ UNCHANGED <<lst, conn, heap, panic, io>>

\* case <-t: the EventTimeout event
PollTimeout(t) ==
    /\ At(t, "poll_select")
    /\ Running(t)
    /\ TimerReady(Top(t))
    /\ stack' = ReturnAll(t, ErrNone, 0, Event(EventTimeout, 0, "nil"))
    /\ UNCHANGED <<net, lst, conn, heap, panic, io>>

(***************************************************************************)
(* The steps of the procedures, by the goroutine that runs them.           *)
(***************************************************************************)
RegistryStep(t) ==
    \/ AddRead(t)
    \/ AddLock(t)
    \/ DelRead(t)
    \/ DelLock(t)

CloseConnStep(t) ==
    \/ CcCheck(t)
    \/ CcStatus(t)
    \/ CcCloseChan(t)
    \/ CcCloseSock(t)

CloseListenStep(t) ==
    \/ ClCheck(t)
    \/ ClRange(t)
    \/ ClLoop(t)
    \/ ClClose(t)

DestroyStep(t) ==
    \/ DsRange(t)
    \/ DsClients(t)
    \/ DsServers(t)

ErrorStep(t) ==
    \/ CeDestroy(t)
    \/ CeStatus(t)
    \/ CeCloseChan(t)
    \/ CeCloseSock(t)
    \/ CeSetStatus(t)
    \/ CeEmit(t)

ReadStep(t) ==
    \/ \E err \in {ErrEOF, ErrIO, ErrUseOfClosed} : RdFail(t, err)
    \/ \E full, ok \in BOOLEAN : RdData(t, full, ok)
    \/ \E err \in {ErrEOF, ErrIO, ErrUseOfClosed} : RdBodyFail(t, err)
    \/ \E full, ok \in BOOLEAN : RdBody(t, full, ok)
    \/ RdEmit(t)

WriteStep(t) ==
    \/ WrRecv(t)
    \/ WrWrite(t)
    \/ \E err \in {ErrIO, ErrUseOfClosed} : WrFail(t, err)

AcceptStep(t, maxc) ==
    \/ \E pass \in BOOLEAN : Len(conn) < maxc /\ Accept(t, pass)
    \/ AcceptFail(t)
    \/ AccErr(t)
    \/ AccEmit(t)

SendStep(t) ==
    \/ \E ok \in BOOLEAN : SdCheck(t, ok)
    \/ SdEnq(t)

PollStep(t) ==
    \/ Tick(t)
    \/ PollRecv(t)
    \/ PollTimeout(t)

(***************************************************************************)
(* The goroutines a harness schedules.                                     *)
(***************************************************************************)
Apps(n) == {App(k) : k \in 1..n}

Readers(n) == {Reader(c) : c \in 1..n}

Writers(n) == {Writer(c) : c \in 1..n}

Acceptors(n) == {Acceptor(l) : l \in 1..n}

(***************************************************************************)
(* The connection harness: one application goroutine that dials a          *)
(* connection and then sends, polls, closes and destroys, one call after   *)
(* the other, beside the connection's read task.  The write task is not    *)
(* scheduled: the frames sent wait in the mailbox.                         *)
(***************************************************************************)
\* the first call of an application goroutine
FirstCall(t) == IsApp(t) /\ At(t, "idle") /\ Top(t).n = 0

ConnectionCall(t) ==
    \/ \E p \in Protos, ok \in BOOLEAN : FirstCall(t) /\ Connect(t, MaxCalls, p, ok)
    \/ \E c \in 1..MaxCalls : CloseConn(t, MaxCalls, c)
    \/ Destroy(t, MaxCalls)
    \/ \E c \in 1..MaxCalls, b \in BOOLEAN : SendData(t, MaxCalls, c, b)
    \/ \E T \in 0..MaxTimeout : PollEvent(t, MaxCalls, T)

Next ==
    \/ \E t \in Apps(1) :
        \/ ConnectionCall(t)
        \/ ConnectGo(t)
        \/ SendStep(t)
        \/ PollStep(t)
        \/ DestroyStep(t)
    \/ \E t \in Apps(1) \cup Readers(MaxCalls) :
        \/ RegistryStep(t)
        \/ CloseConnStep(t)
        \/ ErrorStep(t)
        \/ ReadStep(t)

Spec == Init /\ [][Next]_vars

(***************************************************************************)
(* The task harness: the connection harness with the write task running.   *)
(***************************************************************************)
NextTasks ==
    \/ \E t \in Apps(1) :
        \/ ConnectionCall(t)
        \/ ConnectGo(t)
        \/ SendStep(t)
        \/ PollStep(t)
        \/ DestroyStep(t)
    \/ \E t \in Apps(1) \cup Readers(MaxCalls) \cup Writers(MaxCalls) :
        \/ RegistryStep(t)
        \/ CloseConnStep(t)
        \/ ErrorStep(t)
        \/ ReadStep(t)
        \/ WriteStep(t)

SpecTasks == Init /\ [][NextTasks]_vars

(***************************************************************************)
(* The callers harness: several application goroutines that listen, dial   *)
(* and close connections at the same time, beside the accept loop.  The    *)
(* read and write tasks wait on their sockets.                             *)
(***************************************************************************)
CallersCall(t) ==
    \/ \E p \in Protos, ok \in BOOLEAN :
           Len(lst) < MaxListeners /\ Listen(t, CallerCalls, p, ok)
    \/ \E p \in Protos, ok \in BOOLEAN :
           Len(conn) < CallerConns /\ Connect(t, CallerCalls, p, ok)
    \/ \E c \in 1..CallerConns : CloseConn(t, CallerCalls, c)

NextCallers ==
    \/ \E t \in Apps(NumCallers) :
        \/ CallersCall(t)
        \/ ListenAdd(t)
        \/ ConnectGo(t)
        \/ CloseConnStep(t)
    \/ \E t \in Apps(NumCallers) \cup Acceptors(MaxListeners) :
        \/ RegistryStep(t)
    \/ \E t \in Acceptors(MaxListeners) :
        \/ AcceptStep(t, CallerConns)

SpecCallers == InitWith(NumCallers) /\ [][NextCallers]_vars

(***************************************************************************)
(* The ids harness: one application goroutine that listens, then dials,    *)
(* while the accept loop of its listener accepts connections.              *)
(***************************************************************************)
IdsCall(t) ==
    \/ \E p \in Protos, ok \in BOOLEAN :
           FirstCall(t) /\ Listen(t, IdCalls, p, ok)
    \/ \E p \in Protos, ok \in BOOLEAN :
           Len(conn) < IdConns /\ Connect(t, IdCalls, p, ok)

NextIds ==
    \/ \E t \in Apps(1) :
        \/ IdsCall(t)
        \/ ListenAdd(t)
        \/ ConnectGo(t)
    \/ \E t \in Apps(1) \cup Acceptors(1) :
        \/ AddRead(t)
        \/ AddLock(t)
    \/ \E t \in Acceptors(1) :
        \/ AcceptStep(t, IdConns)

SpecIds == Init /\ [][NextIds]_vars

(***************************************************************************)
(* The close harness: one application goroutine that listens, then closes  *)
(* connections and the listener, beside the accept loop.  The read and     *)
(* write tasks wait on their sockets.                                      *)
(***************************************************************************)
CloseCall(t) ==
    \/ \E p \in Protos, ok \in BOOLEAN :
           FirstCall(t) /\ Listen(t, CloseCalls, p, ok)
    \/ \E c \in 1..CloseConns : CloseConn(t, CloseCalls, c)
    \/ \E l \in 1..1 : CloseListen(t, CloseCalls, l)

NextClose ==
    \/ \E t \in Apps(1) :
        \/ CloseCall(t)
        \/ ListenAdd(t)
        \/ CloseListenStep(t)
        \/ CloseConnStep(t)
    \/ \E t \in Apps(1) \cup Acceptors(1) :
        \/ RegistryStep(t)
    \/ \E t \in Acceptors(1) :
        \/ AcceptStep(t, CloseConns)

SpecClose == Init /\ [][NextClose]_vars

(***************************************************************************)
(* The cascade harness: one application goroutine that listens, dials,     *)
(* closes listeners and destroys the engine, beside the accept loop.  The  *)
(* read and write tasks wait on their sockets.                             *)
(***************************************************************************)
CascadeCall(t) ==
    \/ \E p \in Protos, ok \in BOOLEAN :
           Len(lst) < MaxListeners /\ Listen(t, CascadeCalls, p, ok)
    \/ \E p \in Protos, ok \in BOOLEAN :
           Len(conn) < CascadeConns /\ Connect(t, CascadeCalls, p, ok)
    \/ \E l \in 1..MaxListeners : CloseListen(t, CascadeCalls, l)
    \/ Destroy(t, CascadeCalls)

NextCascade ==
    \/ \E t \in Apps(1) :
        \/ CascadeCall(t)
        \/ ListenAdd(t)
        \/ ConnectGo(t)
        \/ CloseConnStep(t)
        \/ CloseListenStep(t)
        \/ DestroyStep(t)
    \/ \E t \in Apps(1) \cup Acceptors(MaxListeners) :
        \/ RegistryStep(t)
    \/ \E t \in Acceptors(MaxListeners) :
        \/ AcceptStep(t, CascadeConns)

SpecCascade == Init /\ [][NextCascade]_vars

(***************************************************************************)
(* Properties of PollEvent and SendData, under Spec.                       *)
(***************************************************************************)
\* the step in which goroutine t's PollEvent call returns
PollReturns(t) == At(t, "poll_select") /\ stack'[t][1].pc = "idle"

\* what the call of goroutine t has returned, in the state after the step
Result(t) == stack'[t][1]

\* C6 as stated: once Destroy has closed the event queue, every PollEvent
\* call returns the "SimpleNet destroyed" error and no event, whatever was
\* queued before.
C6_PollAfterDestroy ==
    [][\A t \in Apps(1) :
          PollReturns(t) /\ net.closed =>
              Result(t).err = ErrDestroyed /\ Result(t).evt = NilEvent]_vars

\* C6 amended: once Destroy has closed the event queue, a PollEvent call
\* returns the oldest event still queued and removes it, or, with its timer
\* fired, the Timeout event; it returns the "SimpleNet destroyed" error and
\* no event only when no event is queued any more.
C6_PollAfterDestroyDrains ==
    [][\A t \in Apps(1) :
          PollReturns(t) /\ net.closed =>
              \/ /\ net.events /= <<>>
                 /\ Result(t).err = ErrNone
                 /\ Result(t).evt = Head(net.events)
                 /\ net'.events = Tail(net.events)
              \/ /\ net.events = <<>>
                 /\ Result(t).err = ErrDestroyed
                 /\ Result(t).evt = NilEvent
                 /\ net' = net
              \/ /\ Top(t).elapsed >= Top(t).timeout
                 /\ Result(t).err = ErrNone
                 /\ Result(t).evt = Event(EventTimeout, 0, "nil")
                 /\ net' = net]_vars

\* a PollEvent call has returned the destroyed error from the closed queue
C6_Witness ==
    \E t \in Apps(1) :
        /\ At(t, "idle")
        /\ Top(t).op = "PollEvent"
        /\ Top(t).err = ErrDestroyed
        /\ net.closed

\* C7: SendData on a connection whose status is Broken returns the "not
\* connected connection" error in its status check and leaves every
\* outbound mailbox as it was.
C7_SendOnBroken ==
    [][\A t \in Apps(1) :
          /\ At(t, "sd_check")
          /\ conn[Top(t).c].status = StatusBroken
          /\ stack'[t] /= stack[t]
          => /\ Result(t).pc = "idle"
             /\ Result(t).err = ErrNotConnected
             /\ \A c \in DOMAIN conn :
                    /\ conn'[c].msgChan = conn[c].msgChan
                    /\ conn'[c].chanClosed = conn[c].chanClosed]_vars

\* SendData has returned the not-connected error for a Broken connection
C7_Witness ==
    \E t \in Apps(1) :
        /\ At(t, "idle")
        /\ Top(t).op = "SendData"
        /\ Top(t).err = ErrNotConnected
        /\ conn[Top(t).arg].status = StatusBroken

\* C8: a PollEvent call that returns while the event queue is open and
\* holds no event returns the Timeout event, with no connection and no
\* error, and not before its timeout has passed; and the event queue never
\* holds a Timeout event.
C8_PollTimeout ==
    [][/\ \A t \in Apps(1) :
            PollReturns(t) /\ ~net.closed /\ net.events = <<>> =>
                /\ Result(t).err = ErrNone
                /\ Result(t).evt = Event(EventTimeout, 0, "nil")
                /\ Top(t).elapsed >= Top(t).timeout
                /\ net' = net
       /\ \A k \in 1..Len(net'.events) :
              net'.events[k].EventType /= EventTimeout]_vars

\* a PollEvent call with a positive timeout has returned the Timeout event
\* from the open queue
C8_Witness ==
    \E t \in Apps(1) :
        /\ At(t, "idle")
        /\ Top(t).op = "PollEvent"
        /\ Top(t).arg > 0
        /\ Top(t).evt.EventType = EventTimeout
        /\ ~net.closed

\* C10: the event queue changes only by an event that joins it at its tail
\* or by a PollEvent call that takes the event at its head and returns it;
\* and a PollEvent call returns an event other than Timeout only so.  Hence
\* the events of a connection are polled in the order they were enqueued,
\* none twice and none dropped.
C10_EventOrder ==
    [][/\ \/ net'.events = net.events
          \/ /\ Len(net'.events) = Len(net.events) + 1
             /\ SubSeq(net'.events, 1, Len(net.events)) = net.events
          \/ /\ net.events /= <<>>
             /\ net'.events = Tail(net.events)
             /\ \E t \in Apps(1) :
                    /\ PollReturns(t)
                    /\ Result(t).err = ErrNone
                    /\ Result(t).evt = Head(net.events)
       /\ \A t \in Apps(1) :
              /\ PollReturns(t)
              /\ Result(t).evt /= NilEvent
              /\ Result(t).evt.EventType /= EventTimeout
              => /\ net.events /= <<>>
                 /\ Result(t).evt = Head(net.events)
                 /\ net'.events = Tail(net.events)]_vars

\* a PollEvent call has returned a connection's data event while a later
\* event of the same connection is still queued
C10_Witness ==
    \E t \in Apps(1) :
        /\ At(t, "idle")
        /\ Top(t).op = "PollEvent"
        /\ Top(t).evt.EventType = EventNewConnectionData
        /\ net.events /= <<>>
        /\ Head(net.events).Conn = Top(t).evt.Conn

(***************************************************************************)
(* Properties of teardown, under SpecTasks.                                *)
(***************************************************************************)
\* C4: whichever of CloseConn and the error path of a task come first for a
\* Connected connection, its teardown runs once: no goroutine closes the
\* outbound mailbox a second time.
C4_TeardownOnce ==
    \A t \in Threads : panic[t] /= PanicCloseOfClosed

\* C5: once Destroy has closed the event queue, no task attempts to enqueue
\* an event on it.
C5_NoEnqueueAfterDestroy ==
    \A t \in Threads : panic[t] /= PanicSendEvents

(***************************************************************************)
(* Properties of the registries, under SpecCallers, and of the ids, under  *)
(* SpecIds.                                                                *)
(***************************************************************************)
\* every application goroutine is between two calls
Quiescent == \A t \in Apps(NumCallers) : At(t, "idle")

\* the connections that Connect has returned
ClientConns == {c \in DOMAIN conn : conn[c].listen = 0 /\ Published(c)}

ConnectedClients == {c \in ClientConns : conn[c].status = StatusConnected}

\* C1: after N Connect calls made at the same time have returned, the
\* client registry holds exactly these N connections, each once; after a
\* CloseConn on one of them it holds exactly the others.
C1_ClientRegistry ==
    Quiescent /\ Cardinality(ClientConns \ ConnectedClients) <= 1 =>
        /\ Registered(net.connClient) = ConnectedClients
        /\ net.connClient.len = Cardinality(ConnectedClients)

\* the ids of the listeners and connections created so far
ObjIds ==
    {lst[l].id : l \in DOMAIN lst} \cup {conn[c].id : c \in DOMAIN conn}

\* C9: the ids of the listeners and connections of an engine are pairwise
\* distinct, never change, and each object created gets an id greater than
\* the id of every object created before it.
C9_IdsUniqueIncreasing ==
    [][/\ \A l \in DOMAIN lst : lst'[l].id = lst[l].id
       /\ \A c \in DOMAIN conn : conn'[c].id = conn[c].id
       /\ \A l \in DOMAIN lst' \ DOMAIN lst :
              \A i \in ObjIds : lst'[l].id > i
       /\ \A c \in DOMAIN conn' \ DOMAIN conn :
              \A i \in ObjIds : conn'[c].id > i
       /\ Cardinality(ObjIds') = Len(lst') + Len(conn')]_vars

\* a listener, a connection it accepted and a client connection exist
C9_Witness ==
    /\ Len(lst) >= 1
    /\ \E c, d \in DOMAIN conn : conn[c].listen = 0 /\ conn[d].listen /= 0

(***************************************************************************)
(* Properties of the cascades, under SpecCascade.                          *)
(***************************************************************************)
\* C2: CloseListen on a Listening listener whose sub-registry holds K
\* Connected connections, the only connections the listener has accepted,
\* returns with each of the K connections Broken and none of them in the
\* sub-registry.
C2_CloseListenCascade ==
    \A t \in Apps(1) :
        /\ At(t, "idle")
        /\ Top(t).op = "CloseListen"
        /\ \A c \in DOMAIN conn : conn[c].listen = Top(t).arg => c \in Top(t).snap
        => \A c \in Top(t).snap :
                /\ conn[c].status = StatusBroken
                /\ c \notin Registered(lst[Top(t).arg].conns)

\* C3: after Destroy has returned, the event queue is closed, the destroyed
\* flag is set, every listener is Broken and every connection that was
\* registered, accepted or client-initiated, is Broken.
C3_DestroyCascade ==
    \A t \in Apps(1) :
        At(t, "idle") /\ Top(t).op = "Destroy" =>
            /\ net.closed
            /\ net.destroy
            /\ \A l \in DOMAIN lst : lst[l].status = StatusBroken
            /\ \A c \in Top(t).snap : conn[c].status = StatusBroken

(***************************************************************************)
(* Properties of the read and write tasks, under SpecTasks.                *)
(***************************************************************************)
\* C12: in framed mode BodyLen is given a head read in full, and a read
\* that delivers fewer bytes than requested never leads to a
\* NewConnectionData event.
C12_FramedExactReads ==
    /\ \A t \in Readers(MaxCalls) : At(t, "rd_body") => Top(t).full
    /\ \A k \in 1..Len(net.events) :
           net.events[k].EventType = EventNewConnectionData =>
               net.events[k].Data /= Parsed(FALSE)

(***************************************************************************)
(* Properties of CloseConn and CloseListen, under SpecClose.               *)
(***************************************************************************)
\* the step in which the call `op` of goroutine t returns
CallReturns(t, op) ==
    /\ ~At(t, "idle")
    /\ Result(t).pc = "idle"
    /\ Result(t).op = op

\* goroutine t is at the first statement (label) of a call `op` that the
\* application made
CalledAt(t, op, label) ==
    /\ At(t, label)
    /\ Len(stack[t]) = 2
    /\ stack[t][2].op = op

\* C11: a CloseConn (CloseListen) call that returns returns no error and
\* leaves the connection (listener) Broken; Broken is never left; and a
\* CloseConn (CloseListen) call on a Broken connection (listener), as every
\* call after the first is, returns no error in its first step and changes
\* neither a status, a registry, a mailbox nor a socket.
C11_CloseIdempotent ==
    [][/\ \A c \in DOMAIN conn :
              conn[c].status = StatusBroken => conn'[c].status = StatusBroken
       /\ \A l \in DOMAIN lst :
              lst[l].status = StatusBroken => lst'[l].status = StatusBroken
       /\ \A t \in Apps(1) :
              /\ CallReturns(t, "CloseConn") =>
                     /\ Result(t).err = ErrNone
                     /\ conn'[Result(t).arg].status = StatusBroken
              /\ CallReturns(t, "CloseListen") =>
                     /\ Result(t).err = ErrNone
                     /\ lst'[Result(t).arg].status = StatusBroken
              /\ /\ CalledAt(t, "CloseConn", "cc_check")
                 /\ conn[Top(t).c].status = StatusBroken
                 /\ stack'[t] /= stack[t]
                 => /\ CallReturns(t, "CloseConn")
                    /\ UNCHANGED <<net, lst, conn, heap, panic>>
              /\ /\ CalledAt(t, "CloseListen", "cl_check")
                 /\ lst[Top(t).l].status = StatusBroken
                 /\ stack'[t] /= stack[t]
                 => /\ CallReturns(t, "CloseListen")
                    /\ UNCHANGED <<net, lst, conn, heap, panic>>]_vars

\* a CloseConn call on a connection that an earlier CloseConn call closed
\* has returned
C11_Witness ==
    \E t \in Apps(1) :
        /\ At(t, "idle")
        /\ Top(t).op = "CloseConn"
        /\ Top(t).snap = {}
        /\ conn[Top(t).arg].status = StatusBroken
        /\ lst[conn[Top(t).arg].listen].status = StatusListenning

(***************************************************************************)
(* Properties of the decode errors of the read task, under SpecTasks.      *)
(***************************************************************************)
\* C13: the read task that has got an error from BodyLen or Parse enqueues
\* one ProtoError event that carries the error and goes on to its next
\* read, and this changes neither the status, the mailbox nor the socket
\* of a connection, nor a registry.
C13_ProtoErrorKeepsConnection ==
    [][\A t \in Readers(MaxCalls) :
          /\ At(t, "rd_emit")
          /\ Top(t).evt.EventType = EventProtoError
          /\ stack'[t] /= stack[t]
          => /\ net'.events =
                    Append(net.events, Event(EventProtoError, Top(t).c, ErrProto))
             /\ stack'[t] = <<[pc |-> "rd_read", c |-> Top(t).c]>>
             /\ conn' = conn
             /\ lst' = lst
             /\ heap' = heap
             /\ net'.connClient = net.connClient]_vars

(***************************************************************************)
(* Properties of the error path of the tasks, under SpecTasks.             *)
(***************************************************************************)
\* task t is in checkConnErr with an I/O error
InCheckConnErr(t) ==
    /\ t \in DOMAIN stack
    /\ Live(t)
    /\ stack[t][Len(stack[t])].pc \in
           {"ce_destroy", "ce_status", "ce_close_chan", "ce_close_sock",
            "ce_set_status", "ce_emit"}

\* the error task t has in hand
ErrInHand(t) == stack[t][Len(stack[t])].err

\* C14: while Destroy has not been called, a task that has observed an I/O
\* error ends only by enqueuing one event for its connection, of kind
\* ConnectionClosed for end-of-stream and ConnectionError otherwise, that
\* carries the error; and when it enqueues it the connection is Broken,
\* its mailbox is closed and it is absent from its registry.
C14_ErrorEvent ==
    [][\A t \in Readers(MaxCalls) \cup Writers(MaxCalls) :
          /\ InCheckConnErr(t)
          /\ ~net.closed
          /\ stack'[t] = <<>>
          => LET c == Top(t).c
             IN  /\ At(t, "ce_emit")
                 /\ net'.events =
                        Append(net.events,
                               Event(IF ErrInHand(t) = ErrEOF
                                     THEN EventConnectionClosed
                                     ELSE EventConnectionError,
                                     c, ErrInHand(t)))
                 /\ conn[c].status = StatusBroken
                 /\ conn[c].chanClosed
                 /\ c \notin Registered(Registry(c))]_vars

\* C15: the write task that comes to its receive with the mailbox closed
\* ends there, whatever the mailbox still holds: it takes no frame to
\* write, runs no error handling and enqueues no event.
C15_WriterEndsOnClose ==
    [][\A t \in Writers(MaxCalls) :
          /\ At(t, "wr_recv")
          /\ conn[Top(t).c].chanClosed
          /\ stack'[t] /= stack[t]
          => /\ stack'[t] = <<>>
             /\ panic'[t] = ""
             /\ conn' = conn
             /\ net' = net]_vars

(***************************************************************************)
(* Properties of the accept loop, under SpecIds.                           *)
(***************************************************************************)
\* the accepted connections that FilterAccept has rejected
Rejected == {c \in DOMAIN conn : conn[c].listen /= 0 /\ ~conn[c].pass}

\* C16: a connection that FilterAccept rejects is in no registry, no event
\* that references it is enqueued, it has no read and no write task; and
\* the accept loop that has rejected it is at its next Accept.
C16_FilterReject ==
    [][/\ \A c \in Rejected' :
              /\ c \notin AllRegistered'
              /\ \A k \in 1..Len(net'.events) : net'.events[k].Conn /= c
              /\ Reader(c) \notin DOMAIN stack'
              /\ Writer(c) \notin DOMAIN stack'
              /\ \A t \in DOMAIN stack' : \A k \in 1..Len(stack'[t]) :
                     "c" \in DOMAIN stack'[t][k] => stack'[t][k].c /= c
       /\ \A c \in Rejected' \ Rejected :
              /\ stack'[Acceptor(conn'[c].listen)] =
                     <<[pc |-> "acc_accept", l |-> conn'[c].listen]>>
              /\ panic' = panic]_vars

\* the accept loop has rejected a connection and then accepted and
\* announced another
C16_Witness ==
    \E c \in Rejected : \E d \in DOMAIN conn :
        /\ d > c
        /\ conn[d].listen = conn[c].listen
        /\ conn[d].pass
        /\ Reader(d) \in Threads

(***************************************************************************)
(* Properties of the accept loop, under SpecCascade.                       *)
(***************************************************************************)
\* the accept loop of listener l is at `label` with connection c
AcceptorAt(l, label, c) ==
    /\ At(Acceptor(l), label)
    /\ Top(Acceptor(l)).c = c

\* C17: the accept loop comes to the NewConnection event of a connection by
\* returning from its registration, with the connection in the listener's
\* sub-registry; from there its next step enqueues the NewConnection event
\* and starts the two tasks, which did not exist before; and no other step
\* enqueues a NewConnection event or starts a task for the connection.
C17_AcceptOrder ==
    [][\A l \in DOMAIN lst : \A c \in DOMAIN conn :
          conn[c].listen = l =>
              /\ ~AcceptorAt(l, "acc_emit", c) /\ AcceptorAt(l, "acc_emit", c)' =>
                     /\ AcceptorAt(l, "add_lock", c)
                     /\ c \in Registered(lst[l].conns)'
              /\ AcceptorAt(l, "acc_emit", c) /\ stack'[Acceptor(l)] /= stack[Acceptor(l)] =>
                     /\ net'.events =
                            Append(net.events, Event(EventNewConnection, c, "nil"))
                     /\ Reader(c) \notin DOMAIN stack
                     /\ Writer(c) \notin DOMAIN stack
                     /\ Reader(c) \in DOMAIN stack'
                     /\ Writer(c) \in DOMAIN stack'
              /\ ~AcceptorAt(l, "acc_emit", c) =>
                     /\ Reader(c) \in DOMAIN stack' => Reader(c) \in DOMAIN stack
                     /\ Writer(c) \in DOMAIN stack' => Writer(c) \in DOMAIN stack
                     /\ \A k \in 1..Len(net'.events) :
                            /\ k > Len(net.events)
                            /\ net'.events[k].Conn = c
                            => /\ net'.events[k].EventType /= EventNewConnection
                               /\ Reader(c) \in DOMAIN stack]_vars

(***************************************************************************)
(* Properties of the accept loop, under SpecClose.                         *)
(***************************************************************************)
\* C18: an accept task that has ended leaves a listener that is not
\* Listening; an accept error with the listener Listening sends the loop
\* back to Accept; and once CloseListen has returned, the listener Broken
\* and its socket closed, no connection joins its sub-registry.
C18_AcceptLoopEnds ==
    [][\A l \in DOMAIN lst :
          /\ Acceptor(l) \in DOMAIN stack' /\ stack'[Acceptor(l)] = <<>> =>
                 lst'[l].status /= StatusListenning
          /\ /\ At(Acceptor(l), "acc_err")
             /\ lst[l].status = StatusListenning
             /\ stack'[Acceptor(l)] /= stack[Acceptor(l)]
             => stack'[Acceptor(l)] = <<[pc |-> "acc_accept", l |-> l]>>
          /\ lst[l].status = StatusBroken /\ lst[l].closed =>
                 Registered(lst[l].conns)' \subseteq Registered(lst[l].conns)]_vars

(***************************************************************************)
(* Properties of SendData under SpecTasks, and of the registries under     *)
(* SpecCallers.                                                            *)
(***************************************************************************)
\* C19: a SendData call that has passed its checks enqueues its frame on an
\* open mailbox: it never comes to its send with the mailbox closed, so
\* that no send on a closed mailbox is ever attempted.
C19_SendOnOpenMailbox ==
    /\ \A t \in Apps(1) : At(t, "sd_enq") => ~conn[Top(t).c].chanClosed
    /\ \A t \in Threads : panic[t] /= PanicSendMailbox

\* the registries: 0 is the client registry, l > 0 the sub-registry of
\* listener l
RegistryOf(r) == IF r = 0 THEN net.connClient ELSE lst[r].conns

\* C20: under SpecCallers, every registry holds a connection at most once
\* and only connections that belong to it; a step takes out of a registry
\* only connections that are Broken (no registration is lost) and puts into
\* it only connections that are Connected (none that teardown has removed).
C20_RegistryInterleaving ==
    [][\A r \in {0} \cup DOMAIN lst :
          /\ RegistryOf(r)'.len = Cardinality(Registered(RegistryOf(r))')
          /\ \A c \in Registered(RegistryOf(r))' : conn'[c].listen = r
          /\ \A c \in Registered(RegistryOf(r)) \ Registered(RegistryOf(r))' :
                 conn[c].status = StatusBroken
          /\ \A c \in Registered(RegistryOf(r))' \ Registered(RegistryOf(r)) :
                 conn[c].status = StatusConnected]_vars

=============================================================================
